---- MODULE Spec2Model ----
(***************************************************************************)
(* NibblePack (src/src/nibblepacking.rs): the group encoder and decoder,   *)
(* the stream drivers, the predictor encoders and the four sinks.          *)
(*                                                                         *)
(* A u64 is a tuple of 16 nibbles, least significant first, so that the    *)
(* full 64-bit width is kept.  Every shift amount the code computes is a   *)
(* multiple of 4 (trailing_zero_nibbles * 4, num_nibbles * 4, the          *)
(* bit_cursor that advances by num_bits, and 64 - bit_cursor), so a shift  *)
(* moves whole nibbles.  A byte is an integer 0..255 and a byte buffer a   *)
(* sequence of bytes; offset k of the code is index k + 1 here.            *)
(***************************************************************************)
EXTENDS Integers, Sequences, FiniteSets, TLC

VARIABLES
    pc,               \* where the caller is: "input", "packed", "unpacked", ...
    mode,             \* which scenario the caller runs
    palette,          \* the values the caller draws its inputs from
    inputs,           \* the caller's input values: one group of 8, or a stream
    out_buffer,       \* the Vec<u8> the encoders append to
    sink,             \* the caller's Sink
    res,              \* what the last decode returned: [status, rem, oob]
    codec,            \* "group", "plain", "delta", "xor", or "diff": delta into a DeltaDiffPackSink
    overflow_checks,  \* whether the build panics on integer overflow
    pass,             \* how many streams the sink has been fed
    prev_inputs,      \* the stream of the pass before
    dsink,            \* the DeltaSink the re-encoded out_vec is decoded into, or the sink before the last call
    cut,              \* how many bytes of out_buffer the last decode was given
    dirty             \* what the sink had been through before the last clear / reset

vars == <<pc, mode, palette, inputs, out_buffer, sink, res, codec, overflow_checks, pass,
          prev_inputs, dsink, cut, dirty>>

----------------------------------------------------------------------------
(* u64 arithmetic on nibble tuples *)

Nibbles == 0..15

NibbleIdx == 1..16

\* the hexadecimal digits of a u64 literal, most significant first
U64(hex) ==
    [k \in NibbleIdx |-> hex[17 - k]]

Zero64 ==
    [k \in NibbleIdx |-> 0]

Max64 ==
    [k \in NibbleIdx |-> 15]

Bit(n, b) ==
    (n \div (2 ^ b)) % 2

NibbleOr ==
    [a \in Nibbles |-> [b \in Nibbles |->
        (IF Bit(a, 0) + Bit(b, 0) > 0 THEN 1 ELSE 0) + (IF Bit(a, 1) + Bit(b, 1) > 0 THEN 2 ELSE 0)
        + (IF Bit(a, 2) + Bit(b, 2) > 0 THEN 4 ELSE 0) + (IF Bit(a, 3) + Bit(b, 3) > 0 THEN 8 ELSE 0)]]

NibbleXor ==
    [a \in Nibbles |-> [b \in Nibbles |->
        ((Bit(a, 0) + Bit(b, 0)) % 2) + 2 * ((Bit(a, 1) + Bit(b, 1)) % 2)
        + 4 * ((Bit(a, 2) + Bit(b, 2)) % 2) + 8 * ((Bit(a, 3) + Bit(b, 3)) % 2)]]

\* x | y
BitOr(x, y) ==
    [k \in NibbleIdx |-> NibbleOr[x[k]][y[k]]]

\* x ^ y
BitXor(x, y) ==
    [k \in NibbleIdx |-> NibbleXor[x[k]][y[k]]]

\* x >> bits, bits a multiple of 4 below 64
Shr(x, bits) ==
    [k \in NibbleIdx |-> IF k + (bits \div 4) <= 16 THEN x[k + (bits \div 4)] ELSE 0]

\* x << bits, bits a multiple of 4 below 64; the bits shifted out are lost
Shl(x, bits) ==
    [k \in NibbleIdx |-> IF k - (bits \div 4) >= 1 THEN x[k - (bits \div 4)] ELSE 0]

\* AndMask with the mask always computed as (1 << num_bits) - 1, which is 0 at 64 bits
AndMask_NoFullWidth(x, num_bits) ==
    [k \in NibbleIdx |-> IF num_bits < 64 /\ k <= num_bits \div 4 THEN x[k] ELSE 0]

\* x & mask, for the mask of the low num_bits bits (u64::MAX when num_bits >= 64)
AndMask(x, num_bits) ==
    [k \in NibbleIdx |-> IF num_bits >= 64 \/ k <= num_bits \div 4 THEN x[k] ELSE 0]

\* leading zero bits of a nibble within its 4 bits
NibbleLz(a) ==
    IF a >= 8 THEN 0 ELSE IF a >= 4 THEN 1 ELSE IF a >= 2 THEN 2 ELSE IF a >= 1 THEN 3 ELSE 4

NibbleTz(a) ==
    IF a = 0 THEN 4 ELSE IF a % 2 = 1 THEN 0 ELSE IF a % 4 = 2 THEN 1 ELSE IF a % 8 = 4 THEN 2 ELSE 3

\* leading zero bits of x counted down from nibble k
RECURSIVE LzFrom(_, _)
LzFrom(x, k) ==
    IF k = 0 THEN 64
    ELSE IF x[k] # 0 THEN 4 * (16 - k) + NibbleLz(x[k])
    ELSE LzFrom(x, k - 1)

\* trailing zero bits of x counted up from nibble k
RECURSIVE TzFrom(_, _)
TzFrom(x, k) ==
    IF k = 17 THEN 64
    ELSE IF x[k] # 0 THEN 4 * (k - 1) + NibbleTz(x[k])
    ELSE TzFrom(x, k + 1)

\* u64::leading_zeros
leading_zeros(x) ==
    LzFrom(x, 16)

\* u64::trailing_zeros
trailing_zeros(x) ==
    TzFrom(x, 1)

\* u8::count_ones
count_ones(m) ==
    Bit(m, 0) + Bit(m, 1) + Bit(m, 2) + Bit(m, 3) + Bit(m, 4) + Bit(m, 5) + Bit(m, 6) + Bit(m, 7)

\* x < y, decided at the highest nibble at or below k where they differ
RECURSIVE LtFrom(_, _, _)
LtFrom(x, y, k) ==
    IF k = 0 THEN FALSE
    ELSE IF x[k] # y[k] THEN x[k] < y[k]
    ELSE LtFrom(x, y, k - 1)

\* x < y
Lt64(x, y) ==
    LtFrom(x, y, 16)

Le64(x, y) ==
    ~Lt64(y, x)

\* the nibbles k..16 of x + y + carry, followed by the carry out of nibble 16
RECURSIVE AddFrom(_, _, _, _)
AddFrom(x, y, k, carry) ==
    IF k > 16 THEN <<carry>>
    ELSE <<(x[k] + y[k] + carry) % 16>> \o AddFrom(x, y, k + 1, (x[k] + y[k] + carry) \div 16)

\* x + y modulo 2^64
WrappingAdd(x, y) ==
    SubSeq(AddFrom(x, y, 1, 0), 1, 16)

\* x + y does not fit 64 bits
AddOverflows(x, y) ==
    AddFrom(x, y, 1, 0)[17] = 1

\* the nibbles k..16 of x - y - borrow
RECURSIVE SubFrom(_, _, _, _)
SubFrom(x, y, k, borrow) ==
    IF k > 16 THEN <<>>
    ELSE <<(x[k] - y[k] - borrow + 16) % 16>>
         \o SubFrom(x, y, k + 1, IF x[k] - y[k] - borrow < 0 THEN 1 ELSE 0)

\* x - y for x >= y
Sub64(x, y) ==
    SubFrom(x, y, 1, 0)

\* u64::saturating_sub
saturating_sub(x, y) ==
    IF Lt64(x, y) THEN Zero64 ELSE Sub64(x, y)

----------------------------------------------------------------------------
(* byteutils: little-endian word write and read *)

\* appends the low numbytes bytes of value, little-endian
direct_write_uint_le(out, value, numbytes) ==
    out \o [k \in 1..numbytes |-> value[2 * k - 1] + 16 * value[2 * k]]

\* the byte at offset off of inbuf; a byte past the end of the slice reads as
\* whatever lies behind the buffer (g)
ByteAt(inbuf, off, g) ==
    IF off < Len(inbuf) THEN inbuf[off + 1] ELSE g

\* reads the 8 bytes at offsets index .. index + 7 as a little-endian u64
direct_read_uint_le(inbuf, index, g) ==
    [k \in NibbleIdx |->
        IF k % 2 = 1 THEN ByteAt(inbuf, index + (k - 1) \div 2, g) % 16
        ELSE ByteAt(inbuf, index + (k - 1) \div 2, g) \div 16]

\* the read of 8 bytes at index touches a byte at an offset >= len(inbuf)
ReadsPastEnd(inbuf, index) ==
    index + 8 > Len(inbuf)

----------------------------------------------------------------------------
(* the group encoder *)

Min(S) ==
    CHOOSE m \in S : \A n \in S : m <= n

\* bit i of the mask is set iff inputs[i] != 0 (inputs[i] of the code is inputs[i + 1] here)
RECURSIVE nonzero_mask_of(_, _)
nonzero_mask_of(in8, n) ==
    IF n = 0 THEN 0
    ELSE nonzero_mask_of(in8, n - 1) + (IF in8[n] # Zero64 THEN 2 ^ (n - 1) ELSE 0)

min_leading_zeros(in8) ==
    Min({leading_zeros(in8[k]) : k \in 1..8})

min_trailing_zeros(in8) ==
    Min({trailing_zeros(in8[k]) : k \in 1..8})

trailing_nibbles_of(in8) ==
    min_trailing_zeros(in8) \div 4

\* num_nibbles taken from the width in bits, rounded down
num_nibbles_of_BitWidth(in8) ==
    (64 - min_leading_zeros(in8) - min_trailing_zeros(in8)) \div 4

\* 16 - (min_leading_zeros / 4) - trailing_nibbles, in u32
num_nibbles_of(in8) ==
    16 - (min_leading_zeros(in8) \div 4) - trailing_nibbles_of(in8)

\* (((num_nibbles - 1) << 4) | trailing_nibbles) as u8
nibble_word_of(in8) ==
    (((num_nibbles_of(in8) - 1) * 16) + trailing_nibbles_of(in8)) % 256

\* pack_to_even_nibbles that writes the inputs unshifted
RECURSIVE pack_to_even_nibbles_NoShift(_, _, _, _, _)
pack_to_even_nibbles_NoShift(in8, out, num_nibbles, trailing_zero_nibbles, n) ==
    IF n = 0 THEN out
    ELSE LET before == pack_to_even_nibbles_NoShift(in8, out, num_nibbles, trailing_zero_nibbles,
                                                    n - 1)
         IN  IF in8[n] # Zero64
             THEN direct_write_uint_le(before, in8[n], num_nibbles \div 2)
             ELSE before

\* for each nonzero input, shift and write out num_nibbles / 2 bytes
RECURSIVE pack_to_even_nibbles(_, _, _, _, _)
pack_to_even_nibbles(in8, out, num_nibbles, trailing_zero_nibbles, n) ==
    IF n = 0 THEN out
    ELSE LET before == pack_to_even_nibbles(in8, out, num_nibbles, trailing_zero_nibbles, n - 1)
         IN  IF in8[n] # Zero64
             THEN direct_write_uint_le(before, Shr(in8[n], trailing_zero_nibbles * 4), num_nibbles \div 2)
             ELSE before

\* one turn of pack_universal's closure, st = [out, out_word, bit_cursor]
pack_universal_step(st, x, trailing_shift, num_bits) ==
    IF x = Zero64 THEN st
    ELSE LET remaining == 64 - st.bit_cursor
             shifted_input == Shr(x, trailing_shift)
             word == BitOr(st.out_word, Shl(shifted_input, st.bit_cursor))
         IN  [out |-> IF remaining <= num_bits THEN direct_write_uint_le(st.out, word, 8) ELSE st.out,
              out_word |-> IF remaining <= num_bits
                           THEN (IF remaining < num_bits THEN Shr(shifted_input, remaining) ELSE Zero64)
                           ELSE word,
              bit_cursor |-> (st.bit_cursor + num_bits) % 64]

RECURSIVE pack_universal_loop(_, _, _, _, _)
pack_universal_loop(in8, out, num_nibbles, trailing_zero_nibbles, n) ==
    IF n = 0 THEN [out |-> out, out_word |-> Zero64, bit_cursor |-> 0]
    ELSE pack_universal_step(pack_universal_loop(in8, out, num_nibbles, trailing_zero_nibbles, n - 1),
                             in8[n], trailing_zero_nibbles * 4, num_nibbles * 4)

\* pack_universal with the remainder word's byte count rounded down
pack_universal_RoundedDown(in8, out, num_nibbles, trailing_zero_nibbles) ==
    LET st == pack_universal_loop(in8, out, num_nibbles, trailing_zero_nibbles, 8)
    IN  IF st.bit_cursor > 0
        THEN direct_write_uint_le(st.out, st.out_word, st.bit_cursor \div 8)
        ELSE st.out

pack_universal(in8, out, num_nibbles, trailing_zero_nibbles) ==
    LET st == pack_universal_loop(in8, out, num_nibbles, trailing_zero_nibbles, 8)
    IN  IF st.bit_cursor > 0
        THEN direct_write_uint_le(st.out, st.out_word, (st.bit_cursor + 7) \div 8)
        ELSE st.out

\* the bytes of out_buffer after nibble_pack8(inputs, out_buffer)
nibble_pack8(in8, out) ==
    LET nonzero_mask == nonzero_mask_of(in8, 8)
        with_mask == Append(out, nonzero_mask)
    IN  IF nonzero_mask # 0
        THEN LET num_nibbles == num_nibbles_of(in8)
                 trailing_nibbles == trailing_nibbles_of(in8)
                 with_word == Append(with_mask, nibble_word_of(in8))
             IN  IF num_nibbles % 2 = 0
                 THEN pack_to_even_nibbles(in8, with_word, num_nibbles, trailing_nibbles, 8)
                 ELSE pack_universal(in8, with_word, num_nibbles, trailing_nibbles)
        ELSE with_mask

----------------------------------------------------------------------------
(* the stream driver and the predictor encoders *)

ZeroArray ==
    [k \in 1..8 |-> Zero64]

\* PadWithZeros without the zero fill: the slots keep the previous group's values
PadWithZeros_Stale(in_buffer, bufindex) ==
    in_buffer

\* zero-fills in_buffer[bufindex..8]
PadWithZeros(in_buffer, bufindex) ==
    [k \in 1..8 |-> IF k > bufindex THEN Zero64 ELSE in_buffer[k]]

\* the for loop of pack_u64 over the first n values, st = [in_buffer, bufindex, out]
RECURSIVE pack_u64_loop(_, _, _)
pack_u64_loop(stream, out, n) ==
    IF n = 0 THEN [in_buffer |-> ZeroArray, bufindex |-> 0, out |-> out]
    ELSE LET st == pack_u64_loop(stream, out, n - 1)
             filled == [st.in_buffer EXCEPT ![st.bufindex + 1] = stream[n]]
         IN  IF st.bufindex + 1 >= 8
             THEN [in_buffer |-> filled, bufindex |-> 0, out |-> nibble_pack8(filled, st.out)]
             ELSE [in_buffer |-> filled, bufindex |-> st.bufindex + 1, out |-> st.out]

\* pack_u64 that starts from an emptied buffer
pack_u64_ClearsBuffer(stream, out) ==
    LET st == pack_u64_loop(stream, <<>>, Len(stream))
    IN  IF st.bufindex > 0
        THEN nibble_pack8(PadWithZeros(st.in_buffer, st.bufindex), st.out)
        ELSE st.out

pack_u64(stream, out) ==
    LET st == pack_u64_loop(stream, out, Len(stream))
    IN  IF st.bufindex > 0
        THEN nibble_pack8(PadWithZeros(st.in_buffer, st.bufindex), st.out)
        ELSE st.out

\* Deltas with last never updated: every delta is taken against 0
Deltas_LastNotUpdated(values) ==
    [k \in 1..Len(values) |-> saturating_sub(values[k], Zero64)]

\* n.saturating_sub(last), last the previous input (0 before the first)
Deltas(values) ==
    [k \in 1..Len(values) |->
        saturating_sub(values[k], IF k = 1 THEN Zero64 ELSE values[k - 1])]

pack_u64_delta(values, out) ==
    pack_u64(Deltas(values), out)

\* f64::to_bits and f64::from_bits reinterpret the 64 bits; an f64 is kept as its bit pattern
to_bits(f) ==
    f

from_bits(b) ==
    b

\* last ^ f_bits, last the previous value's bits
XorDeltas(stream) ==
    [k \in 1..(Len(stream) - 1) |-> BitXor(to_bits(stream[k]), to_bits(stream[k + 1]))]

\* pack_f64_xor that takes an empty stream for an empty encoding
pack_f64_xor_EmptyIsOk(stream, out) ==
    IF Len(stream) = 0 THEN [status |-> "Ok", out |-> out]
    ELSE [status |-> "Ok",
          out |-> pack_u64(XorDeltas(stream), direct_write_uint_le(out, to_bits(stream[1]), 8))]

\* [status, out]: Err(InputTooShort) on an empty stream
pack_f64_xor(stream, out) ==
    IF Len(stream) = 0 THEN [status |-> "InputTooShort", out |-> out]
    ELSE [status |-> "Ok",
          out |-> pack_u64(XorDeltas(stream), direct_write_uint_le(out, to_bits(stream[1]), 8))]

----------------------------------------------------------------------------
(* the sinks: one record shape, the fields a kind does not have stay at their defaults *)

NoSink ==
    [kind |-> "None", vec |-> <<>>, acc |-> Zero64, last |-> Zero64, value_dropped |-> FALSE,
     i |-> 0, last_hist_deltas |-> <<>>, pack_array |-> ZeroArray, out_vec |-> <<>>]

LongSink_new ==
    [NoSink EXCEPT !.kind = "LongSink"]

LongSink_clear(s) ==
    [s EXCEPT !.vec = <<>>]

\* DeltaSink { acc, sink: LongSink }; the inner LongSink's vec is the field vec
DeltaSink_new ==
    [NoSink EXCEPT !.kind = "DeltaSink"]

DeltaSink_clear(s) ==
    [s EXCEPT !.acc = Zero64, !.vec = <<>>]

DoubleXorSink_new(the_vec) ==
    [NoSink EXCEPT !.kind = "DoubleXorSink", !.vec = the_vec]

\* reset that leaves last as it was
DoubleXorSink_reset_KeepsLast(s, init_value) ==
    [s EXCEPT !.vec = <<from_bits(init_value)>>]

DoubleXorSink_reset(s, init_value) ==
    [s EXCEPT !.vec = <<from_bits(init_value)>>, !.last = init_value]

DeltaDiffPackSink_new(num_buckets, out_vec) ==
    [NoSink EXCEPT !.kind = "DeltaDiffPackSink",
                   !.last_hist_deltas = [k \in 1..num_buckets |-> Zero64],
                   !.out_vec = out_vec]

\* reset that leaves out_vec as it was
DeltaDiffPackSink_reset_KeepsOutVec(s) ==
    [s EXCEPT !.i = 0, !.value_dropped = FALSE,
              !.last_hist_deltas = [k \in 1..Len(s.last_hist_deltas) |-> Zero64]]

DeltaDiffPackSink_reset(s) ==
    [s EXCEPT !.i = 0, !.value_dropped = FALSE,
              !.last_hist_deltas = [k \in 1..Len(s.last_hist_deltas) |-> Zero64],
              !.out_vec = <<>>]

\* for j in self.i..8 { pack_array[j] = 0 }: the range is empty when self.i >= 8
DeltaDiffPackSink_finish(s) ==
    LET padded == [k \in 1..8 |-> IF k - 1 >= s.i THEN Zero64 ELSE s.pack_array[k]]
    IN  [s EXCEPT !.pack_array = IF s.i # 0 THEN padded ELSE s.pack_array,
                  !.out_vec = IF s.i # 0 THEN nibble_pack8(padded, s.out_vec) ELSE s.out_vec,
                  !.i = 0,
                  !.value_dropped = FALSE]

\* a value that dropped is packed but not recorded
DeltaDiffPackSink_process_DropNotRecorded(s, data) ==
    IF s.i < Len(s.last_hist_deltas)
    THEN LET last_value == s.last_hist_deltas[s.i + 1]
             packed == [s.pack_array EXCEPT ![(s.i % 8) + 1] =
                           IF Lt64(data, last_value) THEN data ELSE Sub64(data, last_value)]
         IN  [s EXCEPT !.value_dropped = IF Lt64(data, last_value) THEN TRUE ELSE s.value_dropped,
                       !.pack_array = packed,
                       !.last_hist_deltas[s.i + 1] =
                           IF Lt64(data, last_value) THEN last_value ELSE data,
                       !.i = s.i + 1,
                       !.out_vec = IF (s.i + 1) % 8 = 0 THEN nibble_pack8(packed, s.out_vec)
                                   ELSE s.out_vec]
    ELSE s

DeltaDiffPackSink_process(s, data) ==
    IF s.i < Len(s.last_hist_deltas)
    THEN LET last_value == s.last_hist_deltas[s.i + 1]
             packed == [s.pack_array EXCEPT ![(s.i % 8) + 1] =
                           IF Lt64(data, last_value) THEN data ELSE Sub64(data, last_value)]
         IN  [s EXCEPT !.value_dropped = IF Lt64(data, last_value) THEN TRUE ELSE s.value_dropped,
                       !.pack_array = packed,
                       !.last_hist_deltas[s.i + 1] = data,
                       !.i = s.i + 1,
                       !.out_vec = IF (s.i + 1) % 8 = 0 THEN nibble_pack8(packed, s.out_vec)
                                   ELSE s.out_vec]
    ELSE s

RECURSIVE DeltaDiffPackSink_process8(_, _, _)
DeltaDiffPackSink_process8(s, data, n) ==
    IF n = 0 THEN s
    ELSE DeltaDiffPackSink_process(DeltaDiffPackSink_process8(s, data, n - 1), data)

\* seven copies instead of eight
Repeat8_Seven(v) ==
    [k \in 1..7 |-> v]

Repeat8(v) ==
    [k \in 1..8 |-> v]

\* Sink::reserve: capacity only
reserve(s, num_items) ==
    s

\* Sink::process of the sink's kind
process(s, data) ==
    CASE s.kind = "LongSink" -> [s EXCEPT !.vec = Append(s.vec, data)]
      [] s.kind = "DeltaSink" ->
            LET sum == WrappingAdd(s.acc, data)
            IN  [s EXCEPT !.acc = sum, !.vec = Append(s.vec, sum)]
      [] s.kind = "DoubleXorSink" ->
            [s EXCEPT !.vec = Append(s.vec, from_bits(BitXor(s.last, data))), !.last = BitXor(s.last, data)]
      [] s.kind = "DeltaDiffPackSink" -> DeltaDiffPackSink_process(s, data)

\* Sink::process8 of the sink's kind
process8(s, data) ==
    CASE s.kind = "LongSink" -> [s EXCEPT !.vec = s.vec \o Repeat8(data)]
      [] s.kind = "DeltaSink" ->
            LET sum == WrappingAdd(s.acc, data)
            IN  [s EXCEPT !.acc = sum, !.vec = s.vec \o Repeat8(sum)]
      [] s.kind = "DoubleXorSink" ->
            [s EXCEPT !.last = BitXor(s.last, data), !.vec = s.vec \o Repeat8(from_bits(BitXor(s.last, data)))]
      [] s.kind = "DeltaDiffPackSink" -> DeltaDiffPackSink_process8(s, data, 8)

\* self.acc += data panics when it overflows and the build checks overflow
\* (debug_assertions); it wraps otherwise
ProcessPanics(s, data, checks) ==
    s.kind = "DeltaSink" /\ checks /\ AddOverflows(s.acc, data)

----------------------------------------------------------------------------
(* the group decoder *)

\* one turn of the for loop of nibble_unpack8;
\* st = [status, in_word, buf_index, bit_cursor, output, oob]
nibble_unpack8_step(st, bit, inbuf, nonzero_mask, num_bits, tz_shift, total_bytes, g, checks) ==
    IF st.status # "Run" THEN st
    ELSE IF Bit(nonzero_mask, bit) # 0
    THEN LET remaining == 64 - st.bit_cursor
             shifted_in == Shr(st.in_word, st.bit_cursor)
             low == AndMask(shifted_in, num_bits)
             refill == remaining <= num_bits /\ st.buf_index < total_bytes
             next_word == direct_read_uint_le(inbuf, st.buf_index, g)
             out_word == IF refill /\ remaining < num_bits
                         THEN BitOr(low, AndMask(Shl(next_word, remaining), num_bits))
                         ELSE low
             data == Shl(out_word, tz_shift)
         IN  IF refill /\ ~(st.buf_index < Len(inbuf))
             THEN [st EXCEPT !.status = "InputTooShort"]
             ELSE IF ProcessPanics(st.output, data, checks)
             THEN [st EXCEPT !.status = "Panic",
                             !.oob = st.oob \/ (refill /\ ReadsPastEnd(inbuf, st.buf_index))]
             ELSE [status |-> "Run",
                   in_word |-> IF refill THEN next_word ELSE st.in_word,
                   buf_index |-> IF refill THEN st.buf_index + 8 ELSE st.buf_index,
                   bit_cursor |-> (st.bit_cursor + num_bits) % 64,
                   output |-> process(st.output, data),
                   oob |-> st.oob \/ (refill /\ ReadsPastEnd(inbuf, st.buf_index))]
    ELSE IF ProcessPanics(st.output, Zero64, checks)
    THEN [st EXCEPT !.status = "Panic"]
    ELSE [st EXCEPT !.output = process(st.output, Zero64)]

RECURSIVE nibble_unpack8_loop(_, _, _, _, _, _, _, _, _)
nibble_unpack8_loop(st, n, inbuf, nonzero_mask, num_bits, tz_shift, total_bytes, g, checks) ==
    IF n = 0 THEN st
    ELSE nibble_unpack8_step(
             nibble_unpack8_loop(st, n - 1, inbuf, nonzero_mask, num_bits, tz_shift, total_bytes, g, checks),
             n - 1, inbuf, nonzero_mask, num_bits, tz_shift, total_bytes, g, checks)

\* ((inbuf[1] >> 4) + 1) * 4
num_bits_of(inbuf) ==
    ((inbuf[2] \div 16) + 1) * 4

\* (inbuf[1] & 0x0f) * 4
tz_shift_of(inbuf) ==
    (inbuf[2] % 16) * 4

\* 2 + (num_bits as u32 * nonzero_mask.count_ones() + 7) / 8
total_bytes_of(inbuf) ==
    2 + (num_bits_of(inbuf) * count_ones(inbuf[1]) + 7) \div 8

\* [status, rem, output, oob, read_to]: status is "Ok", "InputTooShort" or "Panic" (an
\* index or a slice out of range); rem is the remainder slice; oob says that a byte at an
\* offset >= len(inbuf) was read; read_to is the offset after the last byte read: the
\* words are read one after the other from offset 2, so it is buf_index
nibble_unpack8(inbuf, output, g, checks) ==
    IF Len(inbuf) = 0
    THEN [status |-> "Panic", rem |-> <<>>, output |-> output, oob |-> FALSE, read_to |-> 0]
    ELSE IF inbuf[1] = 0
    THEN [status |-> "Ok", rem |-> SubSeq(inbuf, 2, Len(inbuf)), output |-> process8(output, Zero64),
          oob |-> FALSE, read_to |-> 1]
    ELSE IF Len(inbuf) < 2
    THEN [status |-> "Panic", rem |-> <<>>, output |-> output, oob |-> FALSE, read_to |-> 1]
    ELSE LET nonzero_mask == inbuf[1]
             num_bits == num_bits_of(inbuf)
             tz_shift == tz_shift_of(inbuf)
             total_bytes == total_bytes_of(inbuf)
             st0 == [status |-> "Run", in_word |-> direct_read_uint_le(inbuf, 2, g), buf_index |-> 10,
                     bit_cursor |-> 0, output |-> reserve(output, 8), oob |-> ReadsPastEnd(inbuf, 2)]
             Return(st) ==
                 IF st.status # "Run"
                 THEN [status |-> st.status, rem |-> <<>>, output |-> st.output, oob |-> st.oob,
                       read_to |-> st.buf_index]
                 ELSE IF total_bytes > Len(inbuf)
                 THEN [status |-> "Panic", rem |-> <<>>, output |-> st.output, oob |-> st.oob,
                       read_to |-> st.buf_index]
                 ELSE [status |-> "Ok", rem |-> SubSeq(inbuf, total_bytes + 1, Len(inbuf)),
                       output |-> st.output, oob |-> st.oob, read_to |-> st.buf_index]
         IN  Return(nibble_unpack8_loop(st0, 8, inbuf, nonzero_mask, num_bits, tz_shift,
                                        total_bytes, g, checks))

\* the while loop of unpack
RECURSIVE unpack_loop(_, _, _, _, _, _)
unpack_loop(inbuf, output, values_left, oob, g, checks) ==
    IF values_left > 0
    THEN LET Continue(r) ==
                 IF r.status = "Ok"
                 THEN unpack_loop(r.rem, r.output, values_left - 8, oob \/ r.oob, g, checks)
                 ELSE [r EXCEPT !.oob = oob \/ r.oob]
         IN  Continue(nibble_unpack8(inbuf, output, g, checks))
    ELSE [status |-> "Ok", rem |-> inbuf, output |-> output, oob |-> oob]

unpack(encoded, output, num_values, g, checks) ==
    unpack_loop(encoded, output, num_values, FALSE, g, checks)

\* assert!(num_values >= 1) panics on a count of 0
unpack_f64_xor(encoded, s, num_values, g, checks) ==
    IF Len(encoded) < 8
    THEN [status |-> "InputTooShort", rem |-> <<>>, output |-> s, oob |-> FALSE]
    ELSE IF num_values < 1
    THEN [status |-> "Panic", rem |-> <<>>, output |-> s, oob |-> FALSE]
    ELSE unpack(SubSeq(encoded, 9, Len(encoded)),
                DoubleXorSink_reset(s, direct_read_uint_le(encoded, 0, g)),
                num_values - 1, g, checks)

----------------------------------------------------------------------------
(* the inputs the scenarios draw from *)

X1 == U64(<<0,0,0,0, 0,0,0,0, 0,0,0,0, 0,0,0,1>>)
X100 == U64(<<0,0,0,0, 0,0,0,0, 0,0,0,0, 0,1,0,0>>)
XFFFF == U64(<<0,0,0,0, 0,0,0,0, 0,0,0,0, 15,15,15,15>>)
X1234 == U64(<<0,0,0,0, 0,0,0,0, 0,0,0,0, 1,2,3,4>>)
MaxLess1 == U64(<<15,15,15,15, 15,15,15,15, 15,15,15,15, 15,15,15,14>>)
X5443322110000 == U64(<<0,0,0,5, 4,4,3,3, 2,2,1,1, 0,0,0,0>>)
X443320000 == U64(<<0,0,0,0, 0,0,4,4, 3,3,2,0, 0,0,0,0>>)
TopBit == U64(<<8,0,0,0, 0,0,0,0, 0,0,0,0, 0,0,0,0>>)
X10 == U64(<<0,0,0,0, 0,0,0,0, 0,0,0,0, 0,0,1,0>>)
XFF == U64(<<0,0,0,0, 0,0,0,0, 0,0,0,0, 0,0,15,15>>)
XAB000000 == U64(<<0,0,0,0, 0,0,0,0, 10,11,0,0, 0,0,0,0>>)

\* pairs of values whose groups have the widths 1 and 3 (odd, spilling over a word),
\* 4 (even, ending on a word boundary), 16 (the full width), 9 and 5 with trailing zero
\* nibbles, 1 and 15 at the top of the word, and 2 and 8
ValuePairs ==
    { <<X1, X100>>, <<XFFFF, X1234>>, <<Max64, MaxLess1>>, <<X5443322110000, X443320000>>,
      <<TopBit, X10>>, <<XFF, XAB000000>> }

\* a group draws each of its 8 values from one palette: zero and one value of a pair, the
\* two values of a pair, or zero and both values of the pair the tests use
GroupPalettes ==
    {{Zero64, p[1]} : p \in ValuePairs} \cup {{Zero64, p[2]} : p \in ValuePairs}
    \cup {{p[1], p[2]} : p \in ValuePairs} \cup {{Zero64, X5443322110000, X443320000}}

\* what an out-of-range byte may read as
Garbage ==
    {0, 165}

NoRes ==
    [status |-> "None", rem |-> <<>>, oob |-> FALSE]

\* how the decode before a clear ended, how many values the sink held, and whether
\* finish() was called after it
NoDirty ==
    [status |-> "None", delivered |-> 0, finished |-> FALSE]

ResOf(r) ==
    [status |-> r.status, rem |-> r.rem, oob |-> r.oob]

----------------------------------------------------------------------------
(* one group: nibble_pack8 into an empty buffer, then nibble_unpack8 into a new LongSink *)

InitGroup ==
    /\ pc = "input"
    /\ mode = "group"
    /\ palette \in GroupPalettes
    /\ inputs \in [1..8 -> palette]
    /\ out_buffer = <<>>
    /\ sink = LongSink_new
    /\ res = NoRes
    /\ codec = "group"
    /\ overflow_checks = TRUE
    /\ pass = 0
    /\ prev_inputs = <<>>
    /\ dsink = NoSink
    /\ cut = 0
    /\ dirty = NoDirty

NibblePack8 ==
    /\ pc = "input"
    /\ codec = "group"
    /\ out_buffer' = nibble_pack8(inputs, out_buffer)
    /\ pc' = "packed"
    /\ UNCHANGED <<mode, palette, inputs, sink, res, codec, overflow_checks, pass, prev_inputs,
                   dsink, cut, dirty>>

NibbleUnpack8 ==
    /\ pc = "packed"
    /\ codec = "group"
    /\ \E g \in Garbage :
          \E r \in { nibble_unpack8(out_buffer, sink, g, overflow_checks) } :
              /\ sink' = r.output
              /\ res' = ResOf(r)
    /\ cut' = Len(out_buffer)
    /\ pc' = "unpacked"
    /\ UNCHANGED <<mode, palette, inputs, out_buffer, codec, overflow_checks, pass, prev_inputs,
                   dsink, dirty>>

Next ==
    \/ NibblePack8
    \/ NibbleUnpack8

Spec ==
    InitGroup /\ [][Next]_vars

----------------------------------------------------------------------------
(* one stream: pack_u64, pack_u64_delta or pack_f64_xor into an empty buffer, then unpack
   or unpack_f64_xor of the whole buffer into a new sink *)

\* the longest stream: one full group and the first value of a second, padded one
MaxLen == 9

\* a stream draws its values from one palette.  As f64 bit patterns Zero64 and TopBit are
\* +0.0 and -0.0, and MaxLess1 and Max64 are two NaN payloads.
StreamPalettes ==
    { {Zero64, TopBit}, {MaxLess1, Max64}, {X443320000, X5443322110000} }

\* the sink a caller constructs for a codec
NewSinkFor(c) ==
    CASE c = "plain" -> LongSink_new
      [] c = "delta" -> DeltaSink_new
      [] c = "xor" -> DoubleXorSink_new(<<>>)

InitStream ==
    /\ pc = "input"
    /\ mode = "stream"
    /\ palette \in StreamPalettes
    /\ inputs = <<>>
    /\ out_buffer = <<>>
    /\ codec \in {"plain", "delta", "xor"}
    /\ sink = NewSinkFor(codec)
    /\ res = NoRes
    /\ overflow_checks \in (IF codec = "delta" THEN BOOLEAN ELSE {TRUE})
    /\ pass = 0
    /\ prev_inputs = <<>>
    /\ dsink = NoSink
    /\ cut = 0
    /\ dirty = NoDirty

\* the longest stream whose encoding is then decoded from each of its proper prefixes
MaxTruncLen == 3

\* how long a stream the caller of this scenario builds: a histogram has one value per
\* bucket of the sink
LenLimit ==
    IF codec = "diff" THEN Len(sink.last_hist_deltas)
    ELSE IF mode = "trunc" \/ (mode = "clear" /\ codec # "delta") THEN MaxTruncLen
    ELSE IF mode = "append" /\ pass > 0 THEN MaxTruncLen
    ELSE MaxLen

\* pack_u64_delta is for numbers that are the same or increasing
NonDecreasing(values) ==
    \A k \in 1..(Len(values) - 1) : Le64(values[k], values[k + 1])

\* the caller adds a value to the stream it is about to encode
Push(v) ==
    /\ pc = "input"
    /\ codec # "group"
    /\ Len(inputs) < LenLimit
    /\ (codec \in {"delta", "diff"} \/ mode = "append") => NonDecreasing(Append(inputs, v))
    /\ (mode = "hist" /\ pass > 0) => Le64(prev_inputs[Len(inputs) + 1], v)
    /\ inputs' = Append(inputs, v)
    /\ UNCHANGED <<pc, mode, palette, out_buffer, sink, res, codec, overflow_checks, pass,
                   prev_inputs, dsink, cut, dirty>>

\* [status, out] of the encoder of the codec
PackWith(c, stream, out) ==
    CASE c = "plain" -> [status |-> "Ok", out |-> pack_u64(stream, out)]
      [] c \in {"delta", "diff"} -> [status |-> "Ok", out |-> pack_u64_delta(stream, out)]
      [] c = "xor" -> pack_f64_xor(stream, out)

PackStream ==
    /\ pc = "input"
    /\ codec # "group"
    /\ codec = "diff" => Len(inputs) = Len(sink.last_hist_deltas)
    /\ LET r == PackWith(codec, inputs, out_buffer)
       IN  /\ out_buffer' = r.out
           /\ res' = [NoRes EXCEPT !.status = r.status]
           /\ pc' = IF r.status = "Ok" THEN "packed" ELSE "pack_failed"
    /\ UNCHANGED <<mode, palette, inputs, sink, codec, overflow_checks, pass, prev_inputs,
                   dsink, cut, dirty>>

\* the decoder of the codec on encoded, with the count num_values
UnpackWith(c, encoded, s, num_values, g, checks) ==
    IF c = "xor" THEN unpack_f64_xor(encoded, s, num_values, g, checks)
    ELSE unpack(encoded, s, num_values, g, checks)

UnpackStream ==
    /\ pc = "packed"
    /\ mode = "stream"
    /\ \E g \in Garbage :
          \E r \in { UnpackWith(codec, out_buffer, sink, Len(inputs), g, overflow_checks) } :
              /\ sink' = r.output
              /\ res' = ResOf(r)
    /\ cut' = Len(out_buffer)
    /\ pc' = "unpacked"
    /\ UNCHANGED <<mode, palette, inputs, out_buffer, codec, overflow_checks, pass, prev_inputs,
                   dsink, dirty>>

NextStream ==
    \/ \E v \in palette : Push(v)
    \/ PackStream
    \/ UnpackStream

SpecStream ==
    InitStream /\ [][NextStream]_vars

----------------------------------------------------------------------------
(* a truncated stream: pack_u64 or pack_f64_xor into an empty buffer, then unpack or
   unpack_f64_xor of a proper prefix of the buffer, with the count of the whole stream *)

InitTrunc ==
    /\ pc = "input"
    /\ mode = "trunc"
    /\ palette \in StreamPalettes
    /\ inputs = <<>>
    /\ out_buffer = <<>>
    /\ codec \in {"plain", "xor"}
    /\ sink = NewSinkFor(codec)
    /\ res = NoRes
    /\ overflow_checks = TRUE
    /\ pass = 0
    /\ prev_inputs = <<>>
    /\ dsink = NoSink
    /\ cut = 0
    /\ dirty = NoDirty

UnpackPrefix ==
    /\ pc = "packed"
    /\ mode = "trunc"
    /\ \E k \in 0..(Len(out_buffer) - 1), g \in Garbage :
          \E r \in { UnpackWith(codec, SubSeq(out_buffer, 1, k), sink, Len(inputs), g,
                                overflow_checks) } :
              /\ sink' = r.output
              /\ res' = ResOf(r)
              /\ cut' = k
    /\ pc' = "unpacked"
    /\ UNCHANGED <<mode, palette, inputs, out_buffer, codec, overflow_checks, pass, prev_inputs,
                   dsink, dirty>>

NextTrunc ==
    \/ \E v \in palette : Push(v)
    \/ PackStream
    \/ UnpackPrefix

SpecTrunc ==
    InitTrunc /\ [][NextTrunc]_vars

----------------------------------------------------------------------------
(* histograms: each one goes through pack_u64_delta into a buffer of its own and is
   unpacked into the one DeltaDiffPackSink; finish(); the sink's out_vec is decoded into
   a new DeltaSink; out_vec is emptied before the next histogram *)

\* how many histograms the sink is fed
MaxPasses == 2

\* bucket counters: small ones, and ones that reach the top of the u64 range
HistPalettes ==
    { {X1, X1234}, {Zero64, TopBit} }

InitHist ==
    /\ pc = "input"
    /\ mode = "hist"
    /\ palette \in HistPalettes
    /\ inputs = <<>>
    /\ out_buffer = <<>>
    /\ codec = "diff"
    /\ \E num_buckets \in 1..MaxLen : sink = DeltaDiffPackSink_new(num_buckets, <<>>)
    /\ res = NoRes
    /\ overflow_checks \in BOOLEAN
    /\ pass = 0
    /\ prev_inputs = <<>>
    /\ dsink = NoSink
    /\ cut = 0
    /\ dirty = NoDirty

UnpackHistogram ==
    /\ pc = "packed"
    /\ mode = "hist"
    /\ \E g \in Garbage :
          \E r \in { unpack(out_buffer, sink, Len(inputs), g, overflow_checks) } :
              /\ sink' = r.output
              /\ res' = ResOf(r)
    /\ cut' = Len(out_buffer)
    /\ pass' = pass + 1
    /\ pc' = "unpacked"
    /\ UNCHANGED <<mode, palette, inputs, out_buffer, codec, overflow_checks, prev_inputs,
                   dsink, dirty>>

Finish ==
    /\ pc = "unpacked"
    /\ codec = "diff"
    /\ res.status # "Panic"
    /\ sink' = DeltaDiffPackSink_finish(sink)
    /\ pc' = "finished"
    /\ UNCHANGED <<mode, palette, inputs, out_buffer, res, codec, overflow_checks, pass,
                   prev_inputs, dsink, cut, dirty>>

DecodeOutVec ==
    /\ pc = "finished"
    /\ mode = "hist"
    /\ \E g \in Garbage :
          \E r \in { unpack(sink.out_vec, DeltaSink_new, Len(inputs), g, overflow_checks) } :
              /\ dsink' = r.output
              /\ res' = ResOf(r)
    /\ cut' = Len(sink.out_vec)
    /\ pc' = "decoded"
    /\ UNCHANGED <<mode, palette, inputs, out_buffer, sink, codec, overflow_checks, pass,
                   prev_inputs, dirty>>

\* sink.out_vec.truncate(0), and the next histogram gets a buffer of its own
NextHistogram ==
    /\ pc = "decoded"
    /\ mode = "hist"
    /\ pass < MaxPasses
    /\ sink' = [sink EXCEPT !.out_vec = <<>>]
    /\ prev_inputs' = inputs
    /\ inputs' = <<>>
    /\ out_buffer' = <<>>
    /\ dsink' = NoSink
    /\ res' = NoRes
    /\ cut' = 0
    /\ pc' = "input"
    /\ UNCHANGED <<mode, palette, codec, overflow_checks, pass, dirty>>

NextHist ==
    \/ \E v \in palette : Push(v)
    \/ PackStream
    \/ UnpackHistogram
    \/ Finish
    \/ DecodeOutVec
    \/ NextHistogram

SpecHist ==
    InitHist /\ [][NextHist]_vars

----------------------------------------------------------------------------
(* reuse of a sink: a first stream is decoded into it, from the whole encoding or from a
   prefix of it, with or without finish(); the sink is cleared / reset; a second stream
   is decoded into it *)

ClearPalettes ==
    { {X443320000, X5443322110000} }

\* a sink as its constructor returns it, of the kind and size of s
NewSinkLike(s) ==
    CASE s.kind = "LongSink" -> LongSink_new
      [] s.kind = "DeltaSink" -> DeltaSink_new
      [] s.kind = "DoubleXorSink" -> DoubleXorSink_new(<<>>)
      [] s.kind = "DeltaDiffPackSink" -> DeltaDiffPackSink_new(Len(s.last_hist_deltas), <<>>)

InitClear ==
    /\ pc = "input"
    /\ mode = "clear"
    /\ palette \in ClearPalettes
    /\ inputs = <<>>
    /\ out_buffer = <<>>
    /\ codec \in {"plain", "delta", "xor", "diff"}
    /\ IF codec = "diff"
       THEN \E num_buckets \in 1..MaxLen : sink = DeltaDiffPackSink_new(num_buckets, <<>>)
       ELSE sink = NewSinkFor(codec)
    /\ res = NoRes
    /\ overflow_checks = TRUE
    /\ pass = 0
    /\ prev_inputs = <<>>
    /\ dsink = NoSink
    /\ cut = 0
    /\ dirty = NoDirty

\* the decode that leaves the sink used: of the first cut bytes of the encoding
UnpackBeforeClear ==
    /\ pc = "packed"
    /\ mode = "clear"
    /\ pass = 0
    /\ \E k \in 0..Len(out_buffer), g \in Garbage :
          \E r \in { UnpackWith(codec, SubSeq(out_buffer, 1, k), sink, Len(inputs), g,
                              overflow_checks) } :
              /\ sink' = r.output
              /\ res' = ResOf(r)
              /\ cut' = k
    /\ pass' = pass + 1
    /\ pc' = "unpacked"
    /\ UNCHANGED <<mode, palette, inputs, out_buffer, codec, overflow_checks, prev_inputs,
                   dsink, dirty>>

\* LongSink::clear, DeltaSink::clear, DeltaDiffPackSink::reset; a DoubleXorSink is reset
\* by the next unpack_f64_xor
ClearSink ==
    /\ mode = "clear"
    /\ dirty = NoDirty
    /\ pass = 1
    /\ pc \in {"unpacked", "finished"}
    /\ res.status # "Panic"
    /\ dirty' = [status |-> res.status,
                 delivered |-> IF codec = "diff" THEN sink.i ELSE Len(sink.vec),
                 finished |-> (pc = "finished")]
    /\ sink' = CASE codec = "plain" -> LongSink_clear(sink)
                 [] codec = "delta" -> DeltaSink_clear(sink)
                 [] codec = "xor" -> sink
                 [] codec = "diff" -> DeltaDiffPackSink_reset(sink)
    /\ inputs' = <<>>
    /\ out_buffer' = <<>>
    /\ res' = NoRes
    /\ cut' = 0
    /\ pc' = "input"
    /\ UNCHANGED <<mode, palette, codec, overflow_checks, pass, prev_inputs, dsink>>

UnpackAfterClear ==
    /\ pc = "packed"
    /\ mode = "clear"
    /\ dirty # NoDirty
    /\ \E g \in Garbage :
          \E r \in { UnpackWith(codec, out_buffer, sink, Len(inputs), g, overflow_checks) } :
              /\ sink' = r.output
              /\ res' = ResOf(r)
    /\ cut' = Len(out_buffer)
    /\ pc' = "unpacked"
    /\ UNCHANGED <<mode, palette, inputs, out_buffer, codec, overflow_checks, pass,
                   prev_inputs, dsink, dirty>>

NextClear ==
    \/ \E v \in palette : Push(v)
    \/ PackStream
    \/ UnpackBeforeClear
    \/ Finish
    \/ ClearSink
    \/ UnpackAfterClear

SpecClear ==
    InitClear /\ [][NextClear]_vars

----------------------------------------------------------------------------
(* two encodings into one buffer: the buffer has earlier contents, stream A is packed
   into it, then stream B, and A is decoded from where its encoding starts; the streams
   are runs of one value followed by runs of a larger one *)

\* what the caller's buffer holds before the first encoder call
PriorContents ==
    { <<>>, <<255>>, <<0, 17, 1>> }

AppendPalettes ==
    { {Zero64, X1234}, {X443320000, X5443322110000} }

\* the groups of 8 of this scenario: a at the even and b at the odd indices
AppendGroups(values) ==
    { [k \in 1..8 |-> IF k % 2 = 0 THEN a ELSE b] : a \in values, b \in values }

InitAppend ==
    /\ pc = "input"
    /\ mode = "append"
    /\ palette \in AppendPalettes
    /\ codec \in {"group", "plain", "delta", "xor"}
    /\ inputs \in (IF codec = "group" THEN AppendGroups(palette) ELSE { <<>> })
    /\ out_buffer \in PriorContents
    /\ sink = IF codec = "group" THEN LongSink_new ELSE NewSinkFor(codec)
    /\ res = NoRes
    /\ overflow_checks = TRUE
    /\ pass = 0
    /\ prev_inputs = <<>>
    /\ dsink = NoSink
    /\ cut = Len(out_buffer)
    /\ dirty = NoDirty

\* the caller goes on to stream B with the same buffer
NextStreamSameBuffer ==
    /\ pc = "packed"
    /\ mode = "append"
    /\ pass = 0
    /\ prev_inputs' = inputs
    /\ inputs' \in (IF codec = "group" THEN AppendGroups(palette) ELSE { <<>> })
    /\ res' = NoRes
    /\ pass' = 1
    /\ pc' = "input"
    /\ UNCHANGED <<mode, palette, out_buffer, sink, codec, overflow_checks, dsink, cut, dirty>>

\* stream A is decoded from the offset its encoding starts at, with A's count
UnpackFirstStream ==
    /\ pc = "packed"
    /\ mode = "append"
    /\ pass = 1
    /\ \E g \in Garbage :
          \E r \in { IF codec = "group"
                     THEN nibble_unpack8(SubSeq(out_buffer, cut + 1, Len(out_buffer)), sink, g,
                                         overflow_checks)
                     ELSE UnpackWith(codec, SubSeq(out_buffer, cut + 1, Len(out_buffer)), sink,
                                     Len(prev_inputs), g, overflow_checks) } :
              /\ sink' = r.output
              /\ res' = ResOf(r)
    /\ pc' = "unpacked"
    /\ UNCHANGED <<mode, palette, inputs, out_buffer, codec, overflow_checks, pass,
                   prev_inputs, dsink, cut, dirty>>

NextAppend ==
    \/ \E v \in palette : Push(v)
    \/ PackStream
    \/ NibblePack8
    \/ NextStreamSameBuffer
    \/ UnpackFirstStream

SpecAppend ==
    InitAppend /\ [][NextAppend]_vars

----------------------------------------------------------------------------
(* the two inner encoders on one group: nibble_pack8 has computed num_nibbles and
   trailing_zero_nibbles, num_nibbles is even, and the payload is packed by
   pack_to_even_nibbles or by pack_universal *)

EvenWidths ==
    {2, 4, 6, 8, 10, 12, 14, 16}

\* a value whose nonzero nibbles are exactly the width nibbles above shift zero nibbles
NibbleRun(width, shift, seed) ==
    [k \in NibbleIdx |-> IF k > shift /\ k <= shift + width THEN ((k + seed) % 15) + 1 ELSE 0]

\* zero and a value of the width, or that value and one a nibble narrower
PathPalettesAt(width, shift) ==
    { {Zero64, NibbleRun(width, shift, 3)},
      {NibbleRun(width, shift, 3), NibbleRun(width - 1, shift + 1, 8)} }

\* for every even width, at the bottom and at the top of the word
PathPalettes ==
    UNION { PathPalettesAt(w, 0) \cup PathPalettesAt(w, 16 - w) : w \in EvenWidths }

InitPaths ==
    /\ pc = "input"
    /\ mode = "paths"
    /\ palette \in PathPalettes
    /\ inputs \in [1..8 -> palette]
    /\ out_buffer = <<>>
    /\ sink = NoSink
    /\ res = NoRes
    /\ codec = "group"
    /\ overflow_checks = TRUE
    /\ pass = 0
    /\ prev_inputs = <<>>
    /\ dsink = NoSink
    /\ cut = 0
    /\ dirty = NoDirty

\* the call nibble_pack8 makes when num_nibbles is even
PackToEvenNibbles ==
    /\ pc = "input"
    /\ mode = "paths"
    /\ nonzero_mask_of(inputs, 8) # 0
    /\ num_nibbles_of(inputs) % 2 = 0
    /\ out_buffer' = pack_to_even_nibbles(inputs, out_buffer, num_nibbles_of(inputs),
                                          trailing_nibbles_of(inputs), 8)
    /\ pc' = "packed"
    /\ UNCHANGED <<mode, palette, inputs, sink, res, codec, overflow_checks, pass, prev_inputs,
                   dsink, cut, dirty>>

\* the same arguments handed to pack_universal
PackUniversal ==
    /\ pc = "input"
    /\ mode = "paths"
    /\ nonzero_mask_of(inputs, 8) # 0
    /\ num_nibbles_of(inputs) % 2 = 0
    /\ out_buffer' = pack_universal(inputs, out_buffer, num_nibbles_of(inputs),
                                    trailing_nibbles_of(inputs))
    /\ pc' = "packed"
    /\ UNCHANGED <<mode, palette, inputs, sink, res, codec, overflow_checks, pass, prev_inputs,
                   dsink, cut, dirty>>

NextPaths ==
    \/ PackToEvenNibbles
    \/ PackUniversal

SpecPaths ==
    InitPaths /\ [][NextPaths]_vars

----------------------------------------------------------------------------
(* a sink called directly: process, process8 and finish on a sink of each kind.  Here
   inputs is what the sink was given since it was made or last finished, dsink is the
   sink as it was before the last call, pass counts the values given and cut the
   finishes *)

\* how many values a sink is given: more than a group
MaxGiven == 10

SinkPalettes ==
    { {X1, X1234}, {Zero64, TopBit} }

SinkCodecs ==
    {"plain", "delta", "xor", "diff"}

\* bucket counts: one, a whole group, and more than a group
SinkBuckets ==
    {1, 8, MaxLen}

InitSink ==
    /\ pc = "new"
    /\ mode = "sink"
    /\ palette \in SinkPalettes
    /\ inputs = <<>>
    /\ out_buffer = <<>>
    /\ codec \in SinkCodecs
    /\ IF codec = "diff"
       THEN \E num_buckets \in SinkBuckets : sink = DeltaDiffPackSink_new(num_buckets, <<>>)
       ELSE sink = NewSinkFor(codec)
    /\ res = NoRes
    /\ overflow_checks \in (IF codec = "delta" THEN BOOLEAN ELSE {FALSE})
    /\ pass = 0
    /\ prev_inputs = <<>>
    /\ dsink = NoSink
    /\ cut = 0
    /\ dirty = NoDirty

\* the values given since the sink was made or last finished
GivenSoFar ==
    IF pc = "finish" THEN <<>> ELSE inputs

\* sink.process(v)
SinkProcess(v) ==
    /\ mode = "sink"
    /\ pc \in {"new", "process", "process8", "finish"}
    /\ pass + 1 <= MaxGiven
    /\ GivenSoFar # <<>> => Le64(GivenSoFar[Len(GivenSoFar)], v)
    /\ IF ProcessPanics(sink, v, overflow_checks)
       THEN /\ pc' = "panic"
            /\ UNCHANGED sink
       ELSE /\ pc' = "process"
            /\ sink' = process(sink, v)
    /\ dsink' = sink
    /\ inputs' = Append(GivenSoFar, v)
    /\ pass' = pass + 1
    /\ UNCHANGED <<mode, palette, out_buffer, res, codec, overflow_checks, prev_inputs, cut,
                   dirty>>

\* sink.process8(0), the call the decoder makes for a group of zeros
SinkProcess8 ==
    /\ mode = "sink"
    /\ pc \in {"new", "process", "process8", "finish"}
    /\ pass + 8 <= MaxGiven
    /\ sink' = process8(sink, Zero64)
    /\ dsink' = sink
    /\ inputs' = GivenSoFar \o [k \in 1..8 |-> Zero64]
    /\ pass' = pass + 8
    /\ pc' = "process8"
    /\ UNCHANGED <<mode, palette, out_buffer, res, codec, overflow_checks, prev_inputs, cut,
                   dirty>>

\* sink.finish()
SinkFinish ==
    /\ mode = "sink"
    /\ pc \in {"new", "process", "process8", "finish"}
    /\ codec = "diff"
    /\ cut < MaxPasses
    /\ sink' = DeltaDiffPackSink_finish(sink)
    /\ dsink' = sink
    /\ inputs' = GivenSoFar
    /\ cut' = cut + 1
    /\ pc' = "finish"
    /\ UNCHANGED <<mode, palette, out_buffer, res, codec, overflow_checks, pass, prev_inputs,
                   dirty>>

NextSink ==
    \/ \E v \in palette : SinkProcess(v)
    \/ SinkProcess8
    \/ SinkFinish

SpecSink ==
    InitSink /\ [][NextSink]_vars

----------------------------------------------------------------------------
(* one group frame inside a longer buffer: nibble_pack8 into an empty buffer, more bytes
   after the frame, then nibble_unpack8 of the whole buffer.  Here cut is the length of
   the frame and pass the offset after the last byte the decoder read *)

\* one-nibble values, values of 9 and 5 nibbles, which cross the first word, and whole
\* words, each of which ends where its word ends
FramePalettes ==
    { {Zero64, X1}, {X443320000, X5443322110000}, {Zero64, Max64} }

\* what follows the frame in the buffer: nothing, or eight more bytes
Trailers ==
    { <<>>, [k \in 1..8 |-> 255] }

InitFrame ==
    /\ pc = "input"
    /\ mode = "frame"
    /\ palette \in FramePalettes
    /\ inputs \in [1..8 -> palette]
    /\ out_buffer = <<>>
    /\ sink = LongSink_new
    /\ res = NoRes
    /\ codec = "group"
    /\ overflow_checks = TRUE
    /\ pass = 0
    /\ prev_inputs = <<>>
    /\ dsink = NoSink
    /\ cut = 0
    /\ dirty = NoDirty

\* the buffer goes on after the frame
AppendTrailer ==
    /\ pc = "packed"
    /\ mode = "frame"
    /\ \E trailer \in Trailers : out_buffer' = out_buffer \o trailer
    /\ cut' = Len(out_buffer)
    /\ pc' = "framed"
    /\ UNCHANGED <<mode, palette, inputs, sink, res, codec, overflow_checks, pass, prev_inputs,
                   dsink, dirty>>

UnpackFrame ==
    /\ pc = "framed"
    /\ mode = "frame"
    /\ \E g \in Garbage :
          \E r \in { nibble_unpack8(out_buffer, sink, g, overflow_checks) } :
              /\ sink' = r.output
              /\ res' = ResOf(r)
              /\ pass' = r.read_to
    /\ pc' = "unpacked"
    /\ UNCHANGED <<mode, palette, inputs, out_buffer, codec, overflow_checks, prev_inputs,
                   dsink, cut, dirty>>

NextFrame ==
    \/ NibblePack8
    \/ AppendTrailer
    \/ UnpackFrame

SpecFrame ==
    InitFrame /\ [][NextFrame]_vars

----------------------------------------------------------------------------
(* what the claims about one group say *)

Max(S) ==
    CHOOSE m \in S : \A n \in S : m >= n

\* the nibble positions (1 = lowest) at which some input of the group has a nonzero nibble
UsedNibbles(in8) ==
    {k \in NibbleIdx : \E n \in 1..8 : in8[n][k] # 0}

\* the width in nibbles needed for every input once the common trailing zero nibbles are cut
WidthInNibbles(in8) ==
    Max(UsedNibbles(in8)) - Min(UsedNibbles(in8)) + 1

\* the low-order zero nibbles common to all inputs
CommonTrailingNibbles(in8) ==
    Min(UsedNibbles(in8)) - 1

NonzeroCount(in8) ==
    Cardinality({n \in 1..8 : in8[n] # Zero64})

\* C1: nibble_unpack8 of the bytes nibble_pack8 appended to an empty buffer, into an empty
\* LongSink, succeeds, delivers exactly the 8 inputs in index order and returns an empty
\* remainder.
C1_GroupRoundTrip ==
    (mode = "group" /\ pc = "unpacked") =>
        /\ res.status = "Ok"
        /\ sink.vec = inputs
        /\ res.rem = <<>>

\* a group mixing zeros with full-width values has been packed and unpacked
C1_Witness ==
    /\ mode = "group" /\ pc = "unpacked"
    /\ inputs[1] = Zero64 /\ inputs[2] = Max64 /\ inputs[8] = Max64
    /\ Len(sink.vec) = 8

\* C6: nibble_pack8 appends the single byte 0x00 for eight zeros and otherwise exactly
\* 2 + ceil(popcount(nonzero_mask) * num_nibbles * 4 / 8) bytes, on the even and on the
\* odd path, and that is the total_bytes nibble_unpack8 computes from the header.
C6_FrameLength ==
    (mode = "group" /\ pc = "packed") =>
        IF NonzeroCount(inputs) = 0
        THEN out_buffer = <<0>>
        ELSE /\ Len(out_buffer) = 2 + (NonzeroCount(inputs) * WidthInNibbles(inputs) * 4 + 7) \div 8
             /\ Len(out_buffer) = total_bytes_of(out_buffer)

\* a group of odd width whose body ends in a half-filled byte has been packed
C6_Witness ==
    /\ mode = "group" /\ pc = "packed"
    /\ NonzeroCount(inputs) = 5
    /\ WidthInNibbles(inputs) = 9
    /\ Len(out_buffer) = 25

\* C7: for a group with a nonzero input, bit i of the mask byte is set iff input i is
\* nonzero, the width byte holds num_nibbles - 1 (num_nibbles in 1..16) and
\* trailing_zero_nibbles (0..15) with num_nibbles + trailing_zero_nibbles <= 16, and
\* computing it neither underflows nor truncates.
C7_Header ==
    (mode = "group" /\ pc = "packed" /\ NonzeroCount(inputs) > 0) =>
        /\ \A n \in 1..8 : (Bit(out_buffer[1], n - 1) = 1) <=> (inputs[n] # Zero64)
        /\ (out_buffer[2] \div 16) + 1 = WidthInNibbles(inputs)
        /\ out_buffer[2] % 16 = CommonTrailingNibbles(inputs)
        /\ (out_buffer[2] \div 16) + 1 \in 1..16
        /\ out_buffer[2] % 16 \in 0..15
        /\ (out_buffer[2] \div 16) + 1 + (out_buffer[2] % 16) <= 16
        /\ num_nibbles_of(inputs) >= 1
        /\ (num_nibbles_of(inputs) - 1) * 16 + trailing_nibbles_of(inputs) <= 255

\* a group whose only nonzero value is the top bit has been packed: one nibble, fifteen
\* trailing zero nibbles
C7_Witness ==
    /\ mode = "group" /\ pc = "packed"
    /\ out_buffer[1] = 5
    /\ Len(out_buffer) > 1
    /\ out_buffer[2] = 15

----------------------------------------------------------------------------
(* what the claims about one stream say *)

\* the number of values unpack delivers for a count of n: 8 * ceil(n / 8)
Delivered(n) ==
    8 * ((n + 7) \div 8)

\* C2: unpack with a LongSink and the count N, on the bytes pack_u64 made of N values,
\* succeeds with an empty remainder; the sink then holds 8 * ceil(N / 8) entries, the
\* first N the inputs in order, the others zero.
C2_PlainRoundTrip ==
    (mode = "stream" /\ codec = "plain" /\ pc = "unpacked") =>
        /\ res.status = "Ok"
        /\ res.rem = <<>>
        /\ Len(sink.vec) = Delivered(Len(inputs))
        /\ \A k \in 1..Len(sink.vec) :
              sink.vec[k] = (IF k <= Len(inputs) THEN inputs[k] ELSE Zero64)

\* a stream of 9 values with a nonzero last one has gone through pack_u64 and unpack
C2_Witness ==
    /\ mode = "stream" /\ codec = "plain" /\ pc = "unpacked"
    /\ Len(inputs) = 9
    /\ inputs[8] # Zero64 /\ inputs[9] # Zero64
    /\ Len(sink.vec) = 16

\* C3: for a non-decreasing stream of N values, unpack of the output of pack_u64_delta
\* into a new DeltaSink with the count N succeeds, whether or not the build checks
\* overflow, and the first N entries of the sink are the inputs.
C3_DeltaRoundTrip ==
    (mode = "stream" /\ codec = "delta" /\ pc = "unpacked" /\ NonDecreasing(inputs)) =>
        /\ res.status = "Ok"
        /\ Len(sink.vec) >= Len(inputs)
        /\ SubSeq(sink.vec, 1, Len(inputs)) = inputs
        /\ Len(inputs) > 0 => sink.acc = inputs[Len(inputs)]

\* a stream of 9 values rising to u64::MAX has gone through pack_u64_delta and unpack in a
\* build that checks overflow
C3_Witness ==
    /\ mode = "stream" /\ codec = "delta" /\ pc = "unpacked"
    /\ overflow_checks
    /\ Len(inputs) = 9
    /\ inputs[1] = MaxLess1 /\ inputs[9] = Max64
    /\ Len(sink.vec) = 16

\* C4: for a non-empty stream of N f64 bit patterns, unpack_f64_xor of the output of
\* pack_f64_xor with the count N succeeds with an empty remainder and the first N entries
\* of the DoubleXorSink have exactly the input bit patterns, in order.
C4_XorRoundTrip ==
    (mode = "stream" /\ codec = "xor" /\ pc = "unpacked") =>
        /\ Len(inputs) >= 1
        /\ res.status = "Ok"
        /\ res.rem = <<>>
        /\ Len(sink.vec) >= Len(inputs)
        /\ \A k \in 1..Len(inputs) : to_bits(sink.vec[k]) = to_bits(inputs[k])

\* a stream of 9 patterns that starts with -0.0 and +0.0 has gone through pack_f64_xor and
\* unpack_f64_xor
C4_Witness ==
    /\ mode = "stream" /\ codec = "xor" /\ pc = "unpacked"
    /\ Len(inputs) = 9
    /\ inputs[1] = TopBit /\ inputs[2] = Zero64 /\ inputs[9] = TopBit
    /\ res.status = "Ok"

\* C5: decoding a proper prefix B[..k] of a valid buffer, with the count of the whole
\* stream, returns Ok or Err(InputTooShort): it never panics and never reads a byte at a
\* position >= k.
C5_TruncationIsSafe ==
    (mode = "trunc" /\ pc = "unpacked") =>
        /\ res.status \in {"Ok", "InputTooShort"}
        /\ ~res.oob

----------------------------------------------------------------------------
(* what the claims about the DeltaDiffPackSink say *)

\* C8: for a non-decreasing stream of N >= 1 values and a new DeltaDiffPackSink with N
\* buckets and an empty out_vec, unpacking pack_u64_delta(values) into the sink with the
\* count N and then finish() leaves out_vec equal to pack_u64_delta(values).
C8_DiffPackIdentity ==
    (mode = "hist" /\ pc = "finished" /\ pass = 1) =>
        sink.out_vec = pack_u64_delta(inputs, <<>>)

\* no bucket's delta of values is smaller than the same bucket's delta of before
DeltasNotSmaller(values, before) ==
    \A k \in 1..Len(values) : Le64(Deltas(before)[k], Deltas(values)[k])

\* C9: when no bucket's delta of a histogram is smaller than in the histogram before it,
\* value_dropped is false at the end of the pass, before finish(), and decoding out_vec
\* after the pass with a new DeltaSink yields in its first N entries the first histogram
\* (pass 1) or the bucket-wise difference to the histogram before (later passes).
C9_HistogramDiffs ==
    (mode = "hist" /\ pass >= 1 /\ (pass > 1 => DeltasNotSmaller(inputs, prev_inputs))) =>
        /\ pc = "unpacked" => (res.status = "Ok" /\ ~sink.value_dropped)
        /\ pc = "decoded" =>
              /\ res.status = "Ok"
              /\ Len(dsink.vec) >= Len(inputs)
              /\ \A k \in 1..Len(inputs) :
                    dsink.vec[k] = (IF pass = 1 THEN inputs[k] ELSE Sub64(inputs[k], prev_inputs[k]))

----------------------------------------------------------------------------
(* what the claim about reused sinks says *)

\* the decode of the encoding in out_buffer into a sink as its constructor returns it,
\* and finish() for a DeltaDiffPackSink
DecodeIntoNewSink(g) ==
    LET Finished(s) == IF codec = "diff" THEN DeltaDiffPackSink_finish(s) ELSE s
    IN  Finished(UnpackWith(codec, out_buffer, NewSinkLike(sink), Len(inputs), g,
                            overflow_checks).output)

AfterClearDone ==
    /\ mode = "clear"
    /\ dirty # NoDirty
    /\ pc = (IF codec = "diff" THEN "finished" ELSE "unpacked")
    /\ res.status = "Ok"

\* C10: after an earlier decode into a sink (successful, failed part-way, or left without
\* finish()), LongSink.clear, DeltaSink.clear, DeltaDiffPackSink.reset or the reset done
\* by unpack_f64_xor, followed by a successful decode (and finish() for the
\* DeltaDiffPackSink), leaves the value list, the accumulator / last value and out_vec
\* equal to those of the same decode into a newly constructed sink.
C10_ClearedSinkIsNew ==
    AfterClearDone =>
        \A g \in Garbage :
            \A new \in { DecodeIntoNewSink(g) } :
                /\ sink.vec = new.vec
                /\ sink.acc = new.acc
                /\ sink.last = new.last
                /\ sink.out_vec = new.out_vec

\* a DeltaDiffPackSink of 9 buckets that went through a decode that failed part-way
\* through its first group and was left without finish(), was reset and then took a
\* whole histogram
C10_Witness ==
    /\ AfterClearDone
    /\ codec = "diff"
    /\ Len(sink.last_hist_deltas) = 9
    /\ dirty.status = "InputTooShort"
    /\ dirty.delivered \in 1..7
    /\ ~dirty.finished
    /\ inputs[1] = X443320000
    /\ inputs[9] = X5443322110000

----------------------------------------------------------------------------
(* what the claims about the encoders' buffer say *)

\* an encoder call: the step from "input" to "packed" or "pack_failed"
EncoderCall ==
    pc = "input" /\ pc' \in {"packed", "pack_failed"}

\* the 8 bytes of a 64-bit pattern, least significant first
LittleEndianBytes(bits) ==
    [k \in 1..8 |-> bits[2 * k - 1] + 16 * bits[2 * k]]

\* C11: pack_f64_xor of an empty stream returns Err(InputTooShort) and leaves out_buffer
\* as it was; of a non-empty stream it returns Ok and the first 8 bytes it appends are
\* the first value's bit pattern, least significant byte first.
C11_XorFirstValue ==
    [][(EncoderCall /\ codec = "xor") =>
          IF inputs = <<>>
          THEN res'.status = "InputTooShort" /\ out_buffer' = out_buffer
          ELSE /\ res'.status = "Ok"
               /\ Len(out_buffer') >= Len(out_buffer) + 8
               /\ SubSeq(out_buffer', 1, Len(out_buffer)) = out_buffer
               /\ SubSeq(out_buffer', Len(out_buffer) + 1, Len(out_buffer) + 8)
                     = LittleEndianBytes(to_bits(inputs[1]))]_vars

\* pack_f64_xor refused an empty stream B after stream A went into a buffer that had
\* earlier contents
C11_Witness ==
    /\ mode = "append"
    /\ codec = "xor"
    /\ pc = "pack_failed"
    /\ pass = 1
    /\ cut = 3
    /\ Len(prev_inputs) = 2
    /\ inputs = <<>>
    /\ res.status = "InputTooShort"

\* the bytes the encoder call of the codec produces for inputs into an empty buffer
ProducedAlone ==
    IF codec = "group" THEN nibble_pack8(inputs, <<>>) ELSE PackWith(codec, inputs, <<>>).out

\* C12: every encoder only appends: after the call the buffer is its earlier contents
\* followed by the bytes the same call produces into an empty buffer; and after stream A
\* (N values) and stream B went into one buffer, the decode of A with the count N
\* returns as the remainder the bytes of B.
C12_AppendOnly ==
    /\ [][EncoderCall => out_buffer' = out_buffer \o ProducedAlone]_vars
    /\ []((mode = "append" /\ pc = "unpacked") =>
             (res.status = "Ok" /\ res.rem = ProducedAlone))

\* a stream A of two groups and a stream B went into a buffer with earlier contents, and
\* the decode of A left B's bytes
C12_Witness ==
    /\ mode = "append"
    /\ pc = "unpacked"
    /\ codec = "delta"
    /\ cut = 3
    /\ Len(prev_inputs) = 9
    /\ prev_inputs[1] = X443320000
    /\ prev_inputs[9] = X5443322110000
    /\ Len(inputs) = 2
    /\ inputs[2] = X5443322110000
    /\ res.status = "Ok"
    /\ Len(res.rem) > 2

----------------------------------------------------------------------------
(* what the claim about the two inner encoders says *)

\* C13: for 8 inputs whose computed num_nibbles is even, with the computed
\* trailing_zero_nibbles, pack_universal appends the same bytes as pack_to_even_nibbles:
\* whichever of the two ran, the buffer is what each of them produces.
C13_EvenAndUniversalAgree ==
    (mode = "paths" /\ pc = "packed") =>
        /\ out_buffer = pack_universal(inputs, <<>>, num_nibbles_of(inputs),
                                       trailing_nibbles_of(inputs))
        /\ out_buffer = pack_to_even_nibbles(inputs, <<>>, num_nibbles_of(inputs),
                                             trailing_nibbles_of(inputs), 8)

\* eight nonzero values of 8 nibbles above 8 zero nibbles: every second value ends on a
\* 64-bit word boundary
C13_Witness ==
    /\ mode = "paths"
    /\ pc = "packed"
    /\ num_nibbles_of(inputs) = 8
    /\ trailing_nibbles_of(inputs) = 8
    /\ nonzero_mask_of(inputs, 8) = 255
    /\ inputs[1] # inputs[2]
    /\ Len(out_buffer) = 32

(* what the claims about a sink called directly say *)

\* the group finish() is to append: the i mod 8 pending values, then zeros
PendingGroup(s) ==
    [k \in 1..8 |-> IF k <= s.i % 8 THEN s.pack_array[k] ELSE Zero64]

\* C14: whenever finish() is called with i values processed since the last finish or
\* reset and i is not a multiple of 8 (i < 8 and i > 8 alike), the group it appends
\* holds the i mod 8 pending values in positions 0..(i mod 8)-1 and zeros in positions
\* (i mod 8)..7.
C14_FinishPadsWithZeros ==
    (mode = "sink" /\ pc = "finish" /\ dsink.i % 8 # 0) =>
        sink.out_vec = nibble_pack8(PendingGroup(dsink), dsink.out_vec)


\* n consecutive calls of process(data)
RECURSIVE ProcessTimes(_, _, _)
ProcessTimes(s, data, n) ==
    IF n = 0 THEN s ELSE process(ProcessTimes(s, data, n - 1), data)

\* C16: for each sink type and every reachable state, process8(0) leaves the sink in
\* exactly the state (vec or out_vec, acc or last, last deltas, pack_array, index) that
\* eight consecutive process(0) calls produce.
C16_Process8IsEightProcess ==
    (mode = "sink" /\ pc = "process8") => sink = ProcessTimes(dsink, Zero64, 8)

\* process8(0) on a DeltaDiffPackSink that holds one pending value: the eight zeros
\* complete a group and start the next one
C16_Witness ==
    /\ mode = "sink"
    /\ pc = "process8"
    /\ codec = "diff"
    /\ dsink.i = 1
    /\ dsink.pack_array[1] # Zero64
    /\ sink.i = 9
    /\ Len(sink.out_vec) > 0

\* process8(0) on the other three sinks, with a nonzero accumulator or last value
C16_OtherSinks ==
    /\ mode = "sink"
    /\ pc = "process8"
    /\ \/ codec = "plain" /\ Len(dsink.vec) > 0
       \/ codec = "delta" /\ dsink.acc # Zero64
       \/ codec = "xor" /\ dsink.last # Zero64


\* the value of the last process call
LastGiven ==
    inputs[Len(inputs)]

\* C17 as stated: every process(v) call on a DeltaDiffPackSink, in any reachable state,
\* records v as last_deltas[i] and advances i by exactly one.
C17_ProcessAlwaysRecords ==
    (mode = "sink" /\ codec = "diff" /\ pc = "process") =>
        /\ sink.i = dsink.i + 1
        /\ sink.i <= Len(sink.last_hist_deltas)
        /\ sink.last_hist_deltas[sink.i] = LastGiven

\* C17, amended: a process(v) call made while i is below the number of buckets records
\* v as last_deltas[i], leaves the other entries alone and advances i by exactly one,
\* whether or not v is smaller than the entry it replaces; a call made once i has
\* reached the number of buckets leaves the sink as it is.
C17_ProcessRecordsWithinBuckets ==
    (mode = "sink" /\ codec = "diff" /\ pc = "process") =>
        IF dsink.i < Len(dsink.last_hist_deltas)
        THEN /\ sink.i = dsink.i + 1
             /\ sink.last_hist_deltas =
                    [dsink.last_hist_deltas EXCEPT ![dsink.i + 1] = LastGiven]
        ELSE sink = dsink

\* a value smaller than the one recorded for its bucket by the histogram before
C17_Witness ==
    /\ mode = "sink"
    /\ codec = "diff"
    /\ pc = "process"
    /\ cut > 0
    /\ dsink.i < Len(dsink.last_hist_deltas)
    /\ Lt64(LastGiven, dsink.last_hist_deltas[dsink.i + 1])
    /\ sink.value_dropped

\* a value given to a sink whose buckets are used up
C17_PastBuckets ==
    /\ mode = "sink"
    /\ codec = "diff"
    /\ pc = "process"
    /\ dsink.i = Len(dsink.last_hist_deltas)


\* how many group frames a buffer of whole frames holds
RECURSIVE FrameCount(_)
FrameCount(bytes) ==
    IF bytes = <<>> THEN 0
    ELSE IF bytes[1] = 0 THEN 1 + FrameCount(SubSeq(bytes, 2, Len(bytes)))
    ELSE 1 + FrameCount(SubSeq(bytes, total_bytes_of(bytes) + 1, Len(bytes)))

\* C18: from a DeltaDiffPackSink with i = 0, an empty out_vec and at least n buckets,
\* after n >= 0 process calls and one finish(), out_vec holds exactly ceil(n/8) frames;
\* finish() appends nothing when n is a multiple of 8, and a second finish() in a row
\* appends nothing.
C18_FramesAfterFinish ==
    (mode = "sink" /\ codec = "diff" /\ pc = "finish") =>
        /\ (cut = 1 /\ Len(inputs) <= Len(sink.last_hist_deltas)) =>
               /\ FrameCount(sink.out_vec) = (Len(inputs) + 7) \div 8
               /\ Len(inputs) % 8 = 0 => sink.out_vec = dsink.out_vec
        /\ inputs = <<>> => sink.out_vec = dsink.out_vec


(* what the claim about the bytes the group decoder reads says *)

\* C15: while nibble_unpack8 decodes a well-formed frame with a nonzero mask, every input
\* byte it reads, in the first 8-byte word at offset 2 and in every refill, lies at an
\* offset smaller than total_bytes, even when the buffer continues beyond the frame.
C15_ReadsWithinFrame ==
    (mode = "frame" /\ pc = "unpacked" /\ nonzero_mask_of(inputs, 8) # 0) =>
        pass <= total_bytes_of(out_buffer)

\* every word the decoder loads begins inside the frame: the frame's words and no more,
\* also when a value ends exactly at the end of a word
WordsLoadedBeginInFrame ==
    (mode = "frame" /\ pc = "unpacked" /\ nonzero_mask_of(inputs, 8) # 0) =>
        /\ (pass - 2) % 8 = 0
        /\ pass - 8 < total_bytes_of(out_buffer)
        /\ cut = total_bytes_of(out_buffer)


====
